---- MODULE Spec2Model ----
(***************************************************************************)
(* Model of the transaction executor of package sql                        *)
(* (src/sql/transaction.go): WithTransaction, WithTransactionContext,      *)
(* WithNestedTransaction and WithNestedTransactionContext, run against a   *)
(* *gorm.DB handle whose store calls (Begin, Commit, Rollback, SavePoint,  *)
(* RollbackTo) succeed or fail as the store decides.                       *)
(*                                                                         *)
(* One behaviour is one call chain: a caller invokes one entry point; the  *)
(* unit of work (fn) it passes may return nil, return an error, panic, or  *)
(* call an entry point again on the handle it received.  The executor's    *)
(* code between two points where fn is in control is one atomic step, as   *)
(* its store calls are synchronous.                                        *)
(***************************************************************************)
EXTENDS Naturals, Sequences, FiniteSets

VARIABLES
    invs,       \* every invocation of an entry point so far, in call order
    stack,      \* ids of the invocations whose fn is running, innermost last
    calls,      \* the store calls issued by the executor, in order
    canceled,   \* the cancellable context "c" (and all derived from it) is canceled
    panicking,  \* a panic is unwinding the goroutine: <<value>>, or <<>>
    result,     \* what the outermost caller observes
    heap,       \* the Go maps allocated so far; a map's address is its index
    data,       \* the JSONB value under test: the address of its map, 0 for nil
    cloned,     \* what data.Clone() returned: <<address>> (<<0>>: nil), <<>> before
    lastWrite,  \* per key, the last Set or Delete called on data (or the literal)
    lastOp,     \* the last JSONB call and the handle it was made on
    DeletedAt,  \* SoftDelete.DeletedAt: <<time>>, or <<>> for nil
    lastCall    \* the last method called on the SoftDelete value

txVars == <<invs, stack, calls, canceled, panicking, result>>
dataVars == <<heap, data, cloned, lastWrite, lastOp, DeletedAt, lastCall>>
vars == <<txVars, dataVars>>

\* ---------------------------------------------------------------- bounds
MaxInv == 2      \* invocations of an entry point in one call chain

\* ---------------------------------------------------------------- errors
\* An error value: text is its message, piece by piece; chain lists the
\* error itself and then the errors errors.Unwrap reaches from it, each named
\* by the head of its message (what %w keeps and %v loses).
NoErr == [text |-> <<>>, chain |-> <<>>]

\* An error of the store or of the unit of work, wrapping nothing.
BaseError(id) == [text |-> <<id>>, chain |-> <<id>>]

\* fmt.Errorf(msg) without verbs.
PlainError(msg) == [text |-> <<msg>>, chain |-> <<msg>>]

\* fmt.Errorf(prefix + "%w", e)
ErrorfW(prefix, e) == [text |-> <<prefix>> \o e.text, chain |-> <<prefix>> \o e.chain]

\* Mutant: the second error is left out of the message.
ErrorfWV_SecondDropped(prefix, e, mid, e2) ==
    [text |-> <<prefix>> \o e.text, chain |-> <<prefix>> \o e.chain]

\* fmt.Errorf(prefix + "%w" + mid + "%v", e, e2): e2 is formatted, not wrapped.
ErrorfWV(prefix, e, mid, e2) ==
    [text |-> <<prefix>> \o e.text \o <<mid>> \o e2.text, chain |-> <<prefix>> \o e.chain]

\* The error a failed store call reports in .Error.
StoreError(op, out) ==
    IF out = "canceled" THEN BaseError("context canceled") ELSE BaseError(op)

\* Errors a unit of work returns of its own.
FnErrs == {BaseError("second insert failed")}

\* Values a unit of work panics with (non-nil: since Go 1.21 panic(nil)
\* reaches recover() as a non-nil *runtime.PanicNilError).
PanicVals == {"boom", "bang"}

\* ---------------------------------------------------------------- results
NoResult == [kind |-> "none", err |-> NoErr, val |-> ""]
NilResult == [kind |-> "nil", err |-> NoErr, val |-> ""]
ErrResult(e) == [kind |-> "err", err |-> e, val |-> ""]
PanicResult(v) == [kind |-> "panic", err |-> NoErr, val |-> v]

\* ---------------------------------------------------------------- contexts
\* A context: id "bg" descends from context.Background() and is never
\* canceled, id "c" descends from the caller's cancellable context; spid is
\* ctx.Value("savepoint_id"): <<>> when absent, <<n>> for the integer n.
SpIds == {<<>>, <<1>>}
Contexts == [id : {"bg", "c"}, spid : SpIds]
Background == [id |-> "bg", spid |-> <<>>]

IsCanceled(ctxid, canc) == ctxid = "c" /\ canc

\* ---------------------------------------------------------------- handles
\* A *gorm.DB: Statement and StatementDB say whether db.Statement and
\* db.Statement.DB are non-nil, tx is the id of the transaction it is
\* bound to (0: none), ctx the id of the context its store calls run under.
NilDB == [kind |-> "nil", Statement |-> FALSE, StatementDB |-> FALSE, tx |-> 0, ctx |-> "bg"]
\* what gorm.Open returns (OpenGorm's DBManager.DB): Statement = &Statement{DB: db, ...}
OpenGormDB == [kind |-> "open", Statement |-> TRUE, StatementDB |-> TRUE, tx |-> 0, ctx |-> "bg"]
\* a hand-built handle with a connection pool but no Statement.DB back pointer
ManualDB == [kind |-> "manual", Statement |-> TRUE, StatementDB |-> FALSE, tx |-> 0, ctx |-> "bg"]
\* &gorm.DB{}: no Statement and no Config
ZeroDB == [kind |-> "zero", Statement |-> FALSE, StatementDB |-> FALSE, tx |-> 0, ctx |-> "bg"]
\* what db.WithContext(ctx).Begin() returns when it succeeds
TxHandle(id, ctxid) ==
    [kind |-> "tx", Statement |-> TRUE, StatementDB |-> TRUE, tx |-> id, ctx |-> ctxid]

\* a transaction the caller began itself (tx := db.WithContext(ctx).Begin())
\* before handing it to an entry point
CallerTx == {TxHandle(1, "bg"), TxHandle(1, "c")}

RootHandles == {NilDB, OpenGormDB, ManualDB, ZeroDB} \cup CallerTx

\* ---------------------------------------------------------------- store
NoName == [fmt |-> "", n |-> 0]

StoreCall(op, inv, h, name, out) ==
    [op |-> op, inv |-> inv, tx |-> h.tx, name |-> name, out |-> out]

\* Outcomes of a Commit, Rollback, SavePoint or RollbackTo on a handle whose
\* context is canceled (canc) or not.  Under a canceled context database/sql
\* refuses Commit and statements (context.Canceled or ErrTxDone); Rollback
\* may still succeed.
StoreOutcomes(op, canc) ==
    IF canc /\ op # "Rollback" THEN {"canceled", "failed"} ELSE {"ok", "failed"}

\* Outcomes of db.WithContext(ctx).Begin(): a handle without Statement
\* panics in WithContext (nil dereference), a handle already bound to a
\* transaction cannot begin another one (gorm.ErrInvalidTransaction), a
\* canceled context fails BeginTx.
BeginOutcomes(db, canc) ==
    IF ~db.Statement THEN {"panic"}
    ELSE IF db.kind = "tx" THEN {"failed"}
    ELSE IF canc THEN {"canceled"}
    ELSE {"ok", "failed"}

\* ---------------------------------------------------------------- executor
\* Mutant: the savepoint branch is never taken.
InTransaction_Never(db) == FALSE

\* transaction.go:62, "Check if we're already in a transaction".
InTransaction(db) == db.Statement /\ db.StatementDB

\* transaction.go:64, fmt.Sprintf("sp_%d", ctx.Value("savepoint_id")): an
\* absent value is the nil interface, which %d renders as %!d(<nil>).
SavepointName(ctx) ==
    IF ctx.spid = <<>> THEN [fmt |-> "sp_%!d(<nil>)", n |-> 0]
    ELSE [fmt |-> "sp_", n |-> ctx.spid[1]]

\* Id of the next physical transaction: one per successful Begin.
NewTxId(cs) == Cardinality({k \in 1..Len(cs) : cs[k].op = "Begin" /\ cs[k].out = "ok"}) + 1

\* What an entry step hands back: the store calls it issued, and either a
\* return value (ret) or, with ret = NoResult, the scope in which fn now runs.
Entered(cs, branch, tx, name, ret) ==
    [calls |-> cs, branch |-> branch, tx |-> tx, savepoint |-> name, ret |-> ret]

\* Mutant: the nil check of the handle is missing.
TxEnter_NoNilCheck(id, ctx, db, o, ntx) ==
    IF o = "panic"
    THEN Entered(<<>>, "none", NilDB, NoName, PanicResult("nil pointer dereference"))
    ELSE IF o # "ok"
    THEN Entered(<<StoreCall("Begin", id, db, NoName, o)>>, "none", NilDB, NoName,
                 ErrResult(ErrorfW("failed to begin transaction: ", StoreError("Begin", o))))
    ELSE Entered(<<StoreCall("Begin", id, TxHandle(ntx, ctx.id), NoName, o)>>, "tx",
                 TxHandle(ntx, ctx.id), NoName, NoResult)

\* Mutant: tx.Error is not looked at, fn runs whatever Begin reported.
TxEnter_BeginErrorIgnored(id, ctx, db, o, ntx) ==
    IF db.kind = "nil"
    THEN Entered(<<>>, "none", NilDB, NoName, ErrResult(PlainError("database connection is nil")))
    ELSE IF o = "panic"
    THEN Entered(<<>>, "none", NilDB, NoName, PanicResult("nil pointer dereference"))
    ELSE Entered(<<StoreCall("Begin", id, TxHandle(ntx, ctx.id), NoName, o)>>, "tx",
                 TxHandle(ntx, ctx.id), NoName, NoResult)

\* WithTransactionContext, lines 19-36, up to the call of fn.  id is the
\* invocation, o the outcome of Begin, ntx the id a new transaction gets.
TxEnter(id, ctx, db, o, ntx) ==
    IF db.kind = "nil"
    THEN Entered(<<>>, "none", NilDB, NoName, ErrResult(PlainError("database connection is nil")))
    ELSE IF o = "panic"
    THEN Entered(<<>>, "none", NilDB, NoName, PanicResult("nil pointer dereference"))
    ELSE IF o # "ok"
    THEN Entered(<<StoreCall("Begin", id, db, NoName, o)>>, "none", NilDB, NoName,
                 ErrResult(ErrorfW("failed to begin transaction: ", StoreError("Begin", o))))
    ELSE Entered(<<StoreCall("Begin", id, TxHandle(ntx, ctx.id), NoName, o)>>, "tx",
                 TxHandle(ntx, ctx.id), NoName, NoResult)

\* WithNestedTransactionContext, lines 56-76 and 87, up to the call of fn.
\* o is the outcome of SavePoint in the savepoint branch, of Begin otherwise.
NestedEnter(id, ctx, db, o, ntx) ==
    IF db.kind = "nil"
    THEN Entered(<<>>, "none", NilDB, NoName, ErrResult(PlainError("database connection is nil")))
    ELSE IF InTransaction(db)
    THEN LET savepoint == SavepointName(ctx) IN
         IF o # "ok"
         THEN Entered(<<StoreCall("SavePoint", id, db, savepoint, o)>>, "none", NilDB, savepoint,
                      ErrResult(ErrorfW("failed to create savepoint: ", StoreError("SavePoint", o))))
         ELSE Entered(<<StoreCall("SavePoint", id, db, savepoint, o)>>, "sp", db, savepoint, NoResult)
    ELSE TxEnter(id, ctx, db, o, ntx)

\* What the executor does once fn is over: store calls and the value it returns.
Left(cs, ret) == [calls |-> cs, ret |-> ret]

\* Mutant: a failed Commit is followed by a Rollback.
TxAfterFn_RollbackAfterCommit(id, inv, r, rb, cm) ==
    IF r.kind = "err"
    THEN Left(<<StoreCall("Rollback", id, inv.tx, NoName, rb)>>,
              ErrResult(ErrorfW("transaction failed: ", r.err)))
    ELSE IF cm # "ok"
    THEN Left(<<StoreCall("Commit", id, inv.tx, NoName, cm),
                StoreCall("Rollback", id, inv.tx, NoName, rb)>>,
              ErrResult(ErrorfW("failed to commit transaction: ", StoreError("Commit", cm))))
    ELSE Left(<<StoreCall("Commit", id, inv.tx, NoName, cm)>>, NilResult)

\* Mutant: the error of fn is formatted with %v instead of %w.
TxAfterFn_NotWrapped(id, inv, r, rb, cm) ==
    IF r.kind = "err"
    THEN Left(<<StoreCall("Rollback", id, inv.tx, NoName, rb)>>,
              ErrResult([text |-> <<"transaction failed: ">> \o r.err.text,
                         chain |-> <<"transaction failed: ">>]))
    ELSE Left(<<StoreCall("Commit", id, inv.tx, NoName, cm)>>,
              IF cm # "ok"
              THEN ErrResult(ErrorfW("failed to commit transaction: ", StoreError("Commit", cm)))
              ELSE NilResult)

\* Mutant: the error of fn is returned without rolling back.
TxAfterFn_NoRollback(id, inv, r, rb, cm) ==
    IF r.kind = "err"
    THEN Left(<<>>, ErrResult(ErrorfW("transaction failed: ", r.err)))
    ELSE Left(<<StoreCall("Commit", id, inv.tx, NoName, cm)>>,
              IF cm # "ok"
              THEN ErrResult(ErrorfW("failed to commit transaction: ", StoreError("Commit", cm)))
              ELSE NilResult)

\* WithTransactionContext, lines 36-47: fn returned r (nil or an error); rb
\* and cm are the outcomes Rollback and Commit would have.
TxAfterFn(id, inv, r, rb, cm) ==
    IF r.kind = "err"
    THEN Left(<<StoreCall("Rollback", id, inv.tx, NoName, rb)>>,
              IF rb # "ok"
              THEN ErrResult(ErrorfWV("transaction failed: ", r.err,
                                      ", rollback failed: ", StoreError("Rollback", rb)))
              ELSE ErrResult(ErrorfW("transaction failed: ", r.err)))
    ELSE Left(<<StoreCall("Commit", id, inv.tx, NoName, cm)>>,
              IF cm # "ok"
              THEN ErrResult(ErrorfW("failed to commit transaction: ", StoreError("Commit", cm)))
              ELSE NilResult)

\* Mutant: the error of fn is returned without rolling back to the savepoint.
SpAfterFn_NoRollbackTo(id, inv, r, rb) ==
    IF r.kind = "err"
    THEN Left(<<>>, ErrResult(ErrorfW("nested transaction failed: ", r.err)))
    ELSE Left(<<>>, NilResult)

\* WithNestedTransactionContext, lines 76-83: fn returned r; rb is the
\* outcome RollbackTo would have.
SpAfterFn(id, inv, r, rb) ==
    IF r.kind = "err"
    THEN Left(<<StoreCall("RollbackTo", id, inv.tx, inv.savepoint, rb)>>,
              IF rb # "ok"
              THEN ErrResult(ErrorfWV("nested transaction failed: ", r.err,
                                      ", savepoint rollback failed: ", StoreError("RollbackTo", rb)))
              ELSE ErrResult(ErrorfW("nested transaction failed: ", r.err)))
    ELSE Left(<<>>, NilResult)

\* Mutant: the panic is passed on without rolling back.
TxDeferred_NoRollback(id, inv, r, rb) == Left(<<>>, PanicResult(r))

\* The deferred function of WithTransactionContext, lines 29-34, run while
\* the panic value r unwinds: Rollback (its result is ignored), then panic(r).
TxDeferred(id, inv, r, rb) ==
    Left(<<StoreCall("Rollback", id, inv.tx, NoName, rb)>>, PanicResult(r))

\* Mutant: the deferred function rolls the whole transaction back.
SpDeferred_FullRollback(id, inv, r, rb) ==
    Left(<<StoreCall("Rollback", id, inv.tx, NoName, rb)>>, PanicResult(r))

\* The deferred function of the savepoint branch, lines 69-74.
SpDeferred(id, inv, r, rb) ==
    Left(<<StoreCall("RollbackTo", id, inv.tx, inv.savepoint, rb)>>, PanicResult(r))

\* ---------------------------------------------------------------- state machine
\* ---------------------------------------------------------- JSONB values
\* A value held in a JSONB (any): nil, a bool, a string, or a nested
\* map[string]any, which Go holds by reference (ref is the map's address).
Nil == [t |-> "nil", b |-> FALSE, s |-> "", ref |-> 0]
Bool(b) == [t |-> "bool", b |-> b, s |-> "", ref |-> 0]
Str(s) == [t |-> "string", b |-> FALSE, s |-> s, ref |-> 0]
MapRef(a) == [t |-> "map", b |-> FALSE, s |-> "", ref |-> a]

\* make(JSONB): a map with no entry.
EmptyMap == [k \in {} |-> Nil]

\* The document of the README: two nested maps under "preferences" and
\* "settings".
PreferencesMap ==
    [k \in {"theme", "language", "timezone"} |->
        IF k = "theme" THEN Str("dark") ELSE IF k = "language" THEN Str("en") ELSE Str("UTC")]
SettingsMap == [k \in {"notifications", "email_updates"} |-> Bool(k = "notifications")]
ReadmeDocument ==
    [heap |-> <<PreferencesMap, SettingsMap,
                [k \in {"preferences", "settings"} |-> MapRef(IF k = "preferences" THEN 1 ELSE 2)]>>,
     j |-> 3]
EmptyDocument == [heap |-> <<EmptyMap>>, j |-> 1]
Literals == {ReadmeDocument, EmptyDocument}

\* The keys and values the callers pass to Set and Delete, the keys they
\* query, and the entries they write into a nested map they reached.
CallKeys == {"preferences.theme", "settings"}
CallVals == {Str("light"), Bool(FALSE)}
TopKeys == {"preferences", "settings"} \cup CallKeys
QueryKeys == TopKeys \cup {"settings.notifications", "preferences.timezone"}
NestedWrites ==
    {[key |-> "preferences", nkey |-> "theme", v |-> Str("light")],
     [key |-> "settings", nkey |-> "notifications", v |-> Bool(FALSE)]}

\* The map m stored at address at: a new address extends the heap.
Store(hp, at, m) == IF at <= Len(hp) THEN [hp EXCEPT ![at] = m] ELSE Append(hp, m)

\* How a call that writes a map ends: it returned, or the runtime panicked
\* ("assignment to entry in nil map").
Returned(hp) == [heap |-> hp, panic |-> FALSE]
NilMapPanic(hp) == [heap |-> hp, panic |-> TRUE]

\* m[key] = value, the Go map assignment, on the map at address a.
Assign(hp, a, key, value) ==
    [hp EXCEPT ![a] = [k \in (DOMAIN @) \cup {key} |-> IF k = key THEN value ELSE @[k]]]

\* --------------------------------------------------------- JSONB methods
\* Each method on the JSONB whose map is at address h (0: the nil JSONB) in
\* the heap hp.

\* Set without the nil check: the assignment panics on the nil map.
Set_NoNilCheck(hp, h, key, value) ==
    IF h = 0 THEN NilMapPanic(hp) ELSE Returned(Assign(hp, h, key, value))

\* Set: nothing on nil, else j[key] = value; key is one flat map key.
Set(hp, h, key, value) ==
    IF h = 0 THEN Returned(hp) ELSE Returned(Assign(hp, h, key, value))

\* Get: (nil, false) on nil, else the comma-ok lookup j[key].
Get(hp, h, key) ==
    IF h # 0 /\ key \in DOMAIN hp[h]
    THEN [v |-> hp[h][key], ok |-> TRUE]
    ELSE [v |-> Nil, ok |-> FALSE]

\* GetBool: Get, then the type assertion value.(bool).
GetBool(hp, h, key) ==
    LET g == Get(hp, h, key)
    IN IF g.ok /\ g.v.t = "bool" THEN [v |-> g.v.b, ok |-> TRUE] ELSE [v |-> FALSE, ok |-> FALSE]

\* Delete: nothing on nil, else delete(j, key).
Delete(hp, h, key) ==
    IF h = 0 THEN Returned(hp)
    ELSE Returned([hp EXCEPT ![h] = [k \in (DOMAIN @) \ {key} |-> @[k]]])

\* Has: false on nil, else whether j[key] exists.
Has(hp, h, key) == h # 0 /\ key \in DOMAIN hp[h]

\* Keys: nil on nil, else the keys of the map (in the map's iteration order,
\* which Go leaves unspecified: a set).
Keys(hp, h) == IF h = 0 THEN [nil |-> TRUE, keys |-> {}] ELSE [nil |-> FALSE, keys |-> DOMAIN hp[h]]

\* Clone: nil on nil, else a new map (allocated at address at) that gets
\* every entry of j by assignment clone[k] = v, nested maps by reference.
Clone(hp, h, at) ==
    IF h = 0 THEN [heap |-> hp, ret |-> 0]
    ELSE [heap |-> Store(hp, at, [k \in DOMAIN hp[h] |-> hp[h][k]]), ret |-> at]

\* ------------------------------------------------------------ SoftDelete
\* DeletedAt *time.Time is <<time>>, or <<>> for nil.
Times == {1, 2}

IsDeleted(deletedAt) == deletedAt # <<>>

\* Delete: DeletedAt = &now.
SoftDelete(now) == <<now>>

\* Restore that leaves the marker in place.
Restore_KeepsDeletedAt(deletedAt) == deletedAt

\* Restore: DeletedAt = nil.
Restore(deletedAt) == <<>>

\* ------------------------------------------------------ call histories
\* What lastWrite keeps per key, and what lastOp keeps.
NoWrite == [op |-> "", v |-> Nil]
Written(v) == [op |-> "Set", v |-> v]
Removed == [op |-> "Delete", v |-> Nil]
JsonbCall(name, on, key, v, panic) ==
    [name |-> name, on |-> on, key |-> key, v |-> v, panic |-> panic]
NoCall == JsonbCall("", "", "", Nil, FALSE)

Top == stack[Len(stack)]
Running == result.kind = "none" /\ panicking = <<>>
NestedEntries == {"WithNestedTransactionContext"}

Init ==
    /\ invs = <<>>
    /\ stack = <<>>
    /\ calls = <<>>
    /\ canceled = FALSE
    /\ panicking = <<>>
    /\ result = NoResult
    /\ heap = <<>>
    /\ data = 0
    /\ cloned = <<>>
    /\ lastWrite = [k \in TopKeys |-> NoWrite]
    /\ lastOp = NoCall
    /\ DeletedAt = <<>>
    /\ lastCall = ""

\* A value v leaves an invocation towards its caller: the fn that called it
\* (which keeps it in got, or is unwound by it), or the outermost caller.
\* is is invs with the leaving invocation already recorded, st the stack
\* without it.
Deliver(is, st, v) ==
    /\ stack' = st
    /\ IF st = <<>>
       THEN /\ invs' = is
            /\ result' = v
            /\ panicking' = <<>>
       ELSE /\ result' = result
            /\ IF v.kind = "panic"
               THEN /\ invs' = is
                    /\ panicking' = <<v.val>>
               ELSE /\ invs' = [is EXCEPT ![st[Len(st)]].got = v]
                    /\ panicking' = <<>>

\* A caller (the outermost one, or the running fn on the handle it was
\* given) calls an entry point; the executor runs up to its call of fn.
Call(entry, ctx, db) ==
    /\ Running
    /\ Len(invs) < MaxInv
    /\ IF stack = <<>> THEN invs = <<>> /\ db \in RootHandles
                       ELSE db = invs[Top].tx
    /\ \E o \in (IF entry \in NestedEntries /\ InTransaction(db)
                 THEN StoreOutcomes("SavePoint", IsCanceled(db.ctx, canceled))
                 ELSE BeginOutcomes(db, IsCanceled(ctx.id, canceled))) :
         LET id == Len(invs) + 1
             e == IF entry \in NestedEntries
                  THEN NestedEnter(id, ctx, db, o, NewTxId(calls))
                  ELSE TxEnter(id, ctx, db, o, NewTxId(calls))
             inv == [entry |-> entry, ctx |-> ctx, db |-> db,
                     parent |-> IF stack = <<>> THEN 0 ELSE Top,
                     branch |-> e.branch, tx |-> e.tx, savepoint |-> e.savepoint,
                     fn |-> NoResult, cancelAtFn |-> FALSE, got |-> NoResult,
                     ret |-> e.ret]
         IN /\ calls' = calls \o e.calls
            /\ IF e.ret.kind = "none"
               THEN /\ invs' = Append(invs, inv)
                    /\ stack' = Append(stack, id)
                    /\ UNCHANGED <<panicking, result>>
               ELSE Deliver(Append(invs, inv), stack, e.ret)
    /\ UNCHANGED canceled
    /\ UNCHANGED dataVars

WithTransactionContext(ctx, db) == Call("WithTransactionContext", ctx, db)
WithNestedTransactionContext(ctx, db) == Call("WithNestedTransactionContext", ctx, db)

\* transaction.go:14-16 and 51-53: the plain entry points are the context
\* ones under context.Background().
WithTransaction(db) == WithTransactionContext(Background, db)
WithNestedTransaction(db) == WithNestedTransactionContext(Background, db)

\* fn returns r to the executor, which finishes and returns to its caller.
FnReturns(r) ==
    /\ Running
    /\ stack # <<>>
    /\ LET id == Top
           inv == invs[id]
       IN /\ r.kind \in {"nil", "err"}
          /\ r.kind = "err" => (r.err \in FnErrs \/ (inv.got.kind = "err" /\ r.err = inv.got.err))
          /\ \E rb \in StoreOutcomes(IF inv.branch = "tx" THEN "Rollback" ELSE "RollbackTo",
                                     IsCanceled(inv.tx.ctx, canceled)),
                cm \in StoreOutcomes("Commit", IsCanceled(inv.tx.ctx, canceled)) :
               LET a == IF inv.branch = "tx" THEN TxAfterFn(id, inv, r, rb, cm)
                        ELSE SpAfterFn(id, inv, r, rb)
                   done == [inv EXCEPT !.fn = r, !.ret = a.ret,
                                       !.cancelAtFn = IsCanceled(inv.ctx.id, canceled)]
               IN /\ calls' = calls \o a.calls
                  /\ Deliver([invs EXCEPT ![id] = done], SubSeq(stack, 1, Len(stack) - 1), a.ret)
    /\ UNCHANGED canceled
    /\ UNCHANGED dataVars

\* fn panics with v.
FnPanics(v) ==
    /\ Running
    /\ stack # <<>>
    /\ invs' = [invs EXCEPT ![Top].fn = PanicResult(v),
                            ![Top].cancelAtFn = IsCanceled(invs[Top].ctx.id, canceled)]
    /\ panicking' = <<v>>
    /\ UNCHANGED <<stack, calls, canceled, result>>
    /\ UNCHANGED dataVars

\* The panic reaches the innermost executor frame, out of its fn (which
\* raised it, or let the panic of a call it made pass): the deferred
\* function of the frame runs.
Recover ==
    /\ panicking # <<>>
    /\ stack # <<>>
    /\ LET id == Top
           inv == IF invs[id].fn.kind = "none"
                  THEN [invs[id] EXCEPT !.fn = PanicResult(panicking[1]),
                                        !.cancelAtFn = IsCanceled(invs[id].ctx.id, canceled)]
                  ELSE invs[id]
       IN \E rb \in StoreOutcomes(IF inv.branch = "tx" THEN "Rollback" ELSE "RollbackTo",
                                  IsCanceled(inv.tx.ctx, canceled)) :
            LET a == IF inv.branch = "tx" THEN TxDeferred(id, inv, panicking[1], rb)
                     ELSE SpDeferred(id, inv, panicking[1], rb)
            IN /\ calls' = calls \o a.calls
               /\ Deliver([invs EXCEPT ![id] = [inv EXCEPT !.ret = a.ret]],
                          SubSeq(stack, 1, Len(stack) - 1), a.ret)
    /\ UNCHANGED canceled
    /\ UNCHANGED dataVars

\* The caller's cancellable context is canceled (by its owner, or a deadline).
CancelContext ==
    /\ Running
    /\ ~canceled
    /\ canceled' = TRUE
    /\ UNCHANGED <<invs, stack, calls, panicking, result>>
    /\ UNCHANGED dataVars

Next ==
    \/ \E db \in RootHandles \cup {invs[i].tx : i \in 1..Len(invs)} : WithTransaction(db)
    \/ \E ctx \in Contexts, db \in RootHandles \cup {invs[i].tx : i \in 1..Len(invs)} :
         WithTransactionContext(ctx, db)
    \/ \E db \in RootHandles \cup {invs[i].tx : i \in 1..Len(invs)} : WithNestedTransaction(db)
    \/ \E ctx \in Contexts, db \in RootHandles \cup {invs[i].tx : i \in 1..Len(invs)} :
         WithNestedTransactionContext(ctx, db)
    \/ \E e \in FnErrs \cup {invs[i].got.err : i \in 1..Len(invs)} : FnReturns(ErrResult(e))
    \/ FnReturns(NilResult)
    \/ \E v \in PanicVals : FnPanics(v)
    \/ Recover
    \/ CancelContext

Spec == Init /\ [][Next]_vars

\* ---------------------------------------------------------------- store calls that panic
\* The deferred functions (lines 29-34, 69-74) stay armed until the entry
\* point returns, so they also catch a panic raised inside the store call
\* that closes the scope: tx.Commit() (line 43), tx.Rollback() (line 37) or
\* db.RollbackTo (line 77), e.g. out of the driver.  fn returns r, the
\* executor makes the closing call, and the call panics; Recover then runs
\* the deferred function of the frame.
ClosingCallPanics(r) ==
    /\ Running
    /\ stack # <<>>
    /\ LET id == Top
           inv == invs[id]
           op == IF inv.branch = "sp" THEN "RollbackTo"
                 ELSE IF r.kind = "err" THEN "Rollback" ELSE "Commit"
       IN /\ r.kind \in {"nil", "err"}
          /\ r.kind = "err" => (r.err \in FnErrs \/ (inv.got.kind = "err" /\ r.err = inv.got.err))
          /\ inv.branch = "sp" => r.kind = "err"
          /\ calls' = Append(calls, StoreCall(op, id, inv.tx,
                                              IF inv.branch = "sp" THEN inv.savepoint ELSE NoName,
                                              "panic"))
          /\ invs' = [invs EXCEPT ![id].fn = r,
                                  ![id].cancelAtFn = IsCanceled(inv.ctx.id, canceled)]
          /\ panicking' = <<"store call panicked">>
    /\ UNCHANGED <<stack, canceled, result>>
    /\ UNCHANGED dataVars

NextStorePanic ==
    \/ Next
    \/ \E e \in FnErrs \cup {invs[i].got.err : i \in 1..Len(invs)} : ClosingCallPanics(ErrResult(e))
    \/ ClosingCallPanics(NilResult)

\* The executor against a store whose calls may also panic.
SpecStorePanic == Init /\ [][NextStorePanic]_vars

\* ------------------------------------------- callers of the data types
\* A caller holds one JSONB (data, nil at first), the clone it took of it
\* (cloned), and one SoftDelete value; each action is one statement of it.
Handles == {"data"} \cup (IF cloned # <<>> THEN {"cloned"} ELSE {})
Handle(on) == IF on = "data" THEN data ELSE cloned[1]

\* data = sql.JSONB{...}: the composite literal allocates the maps.
Literal(d) ==
    /\ heap = <<>>
    /\ data = 0
    /\ heap' = d.heap
    /\ data' = d.j
    /\ lastWrite' = [k \in TopKeys |-> IF Has(d.heap, d.j, k) THEN Written(Get(d.heap, d.j, k).v) ELSE NoWrite]
    /\ lastOp' = JsonbCall("literal", "data", "", Nil, FALSE)
    /\ UNCHANGED <<cloned, DeletedAt, lastCall, txVars>>

\* data.Set(key, value) or cloned.Set(key, value).
CallSet(on, key, value) ==
    /\ on \in Handles
    /\ LET r == Set(heap, Handle(on), key, value)
       IN /\ heap' = r.heap
          /\ lastOp' = JsonbCall("Set", on, key, value, r.panic)
    /\ lastWrite' = IF on = "data" THEN [lastWrite EXCEPT ![key] = Written(value)] ELSE lastWrite
    /\ UNCHANGED <<data, cloned, DeletedAt, lastCall, txVars>>

\* data.Delete(key) or cloned.Delete(key).
CallDelete(on, key) ==
    /\ on \in Handles
    /\ LET r == Delete(heap, Handle(on), key)
       IN /\ heap' = r.heap
          /\ lastOp' = JsonbCall("Delete", on, key, Nil, r.panic)
    /\ lastWrite' = IF on = "data" THEN [lastWrite EXCEPT ![key] = Removed] ELSE lastWrite
    /\ UNCHANGED <<data, cloned, DeletedAt, lastCall, txVars>>

\* cloned = data.Clone(); the map of an earlier clone is garbage, and the
\* new one takes its address.
CallClone ==
    /\ LET at == IF cloned # <<>> /\ cloned[1] # 0 THEN cloned[1] ELSE Len(heap) + 1
           r == Clone(heap, data, at)
       IN /\ heap' = r.heap
          /\ cloned' = <<r.ret>>
    /\ lastOp' = JsonbCall("Clone", "data", "", Nil, FALSE)
    /\ UNCHANGED <<data, lastWrite, DeletedAt, lastCall, txVars>>

\* m := data[key].(map[string]any); m[nkey] = value (or the same through
\* cloned): the caller writes into a nested map it reached.
NestedSet(on, w) ==
    /\ on \in Handles
    /\ LET g == Get(heap, Handle(on), w.key)
       IN /\ g.ok
          /\ g.v.t = "map"
          /\ heap' = Assign(heap, g.v.ref, w.nkey, w.v)
    /\ lastOp' = JsonbCall("NestedSet", on, w.key, w.v, FALSE)
    /\ UNCHANGED <<data, cloned, lastWrite, DeletedAt, lastCall, txVars>>

\* s.Delete() at time now.
CallSoftDelete(now) ==
    /\ DeletedAt' = SoftDelete(now)
    /\ lastCall' = "Delete"
    /\ UNCHANGED <<heap, data, cloned, lastWrite, lastOp, txVars>>

\* s.Restore().
CallRestore ==
    /\ DeletedAt' = Restore(DeletedAt)
    /\ lastCall' = "Restore"
    /\ UNCHANGED <<heap, data, cloned, lastWrite, lastOp, txVars>>

NextData ==
    \/ \E d \in Literals : Literal(d)
    \/ \E on \in {"data", "cloned"}, key \in CallKeys, value \in CallVals : CallSet(on, key, value)
    \/ \E on \in {"data", "cloned"}, key \in CallKeys : CallDelete(on, key)
    \/ CallClone
    \/ \E on \in {"data", "cloned"}, w \in NestedWrites : NestedSet(on, w)
    \/ \E now \in Times : CallSoftDelete(now)
    \/ CallRestore

SpecData == Init /\ [][NextData]_vars

\* ---------------------------------------------------------------- properties
Invocations == 1..Len(invs)
Elems(q) == {q[k] : k \in DOMAIN q}

\* The store calls invocation i issued, as positions of calls.
CallsOf(i) == {k \in 1..Len(calls) : calls[k].inv = i}
OpCalls(i, op) == {k \in CallsOf(i) : calls[k].op = op}
Count(i, op) == Cardinality(OpCalls(i, op))

\* Invocation i began a transaction of its own (and so called fn on it).
Began(i) == invs[i].branch = "tx"
\* Invocation i is over: it returned, or a panic left it.
Over(i) == invs[i].ret.kind # "none"
\* The error outer has inner in its Unwrap chain.
Wraps(outer, inner) ==
    /\ Len(inner.chain) > 0
    /\ Len(outer.chain) > Len(inner.chain)
    /\ SubSeq(outer.chain, Len(outer.chain) - Len(inner.chain) + 1, Len(outer.chain)) = inner.chain
\* Every Commit and Rollback of i went to the transaction i began.
OnOwnTx(i) ==
    \A k \in OpCalls(i, "Commit") \cup OpCalls(i, "Rollback") : calls[k].tx = invs[i].tx.tx

\* C1: when the unit of work of a begun transaction returns nil, the
\* executor issues exactly one Commit and no Rollback on the transaction,
\* and returns nil when that Commit succeeds.
C1_CommitOnSuccess ==
    \A i \in Invocations :
        (Began(i) /\ invs[i].fn.kind = "nil") =>
            /\ Count(i, "Commit") = 1
            /\ Count(i, "Rollback") = 0
            /\ OnOwnTx(i)
            /\ (\A k \in OpCalls(i, "Commit") : calls[k].out = "ok" => invs[i].ret = NilResult)

C1_Witness ==
    \E i \in Invocations :
        /\ Began(i) /\ invs[i].fn.kind = "nil"
        /\ \E k \in OpCalls(i, "Commit") : calls[k].out = "ok"
        /\ result = NilResult

\* C2: when the unit of work of a begun transaction returns an error, the
\* executor issues exactly one Rollback and no Commit on the transaction and
\* returns a non-nil error that has the error of the unit of work in its
\* Unwrap chain.
C2_RollbackOnError ==
    \A i \in Invocations :
        (Began(i) /\ invs[i].fn.kind = "err") =>
            /\ Count(i, "Rollback") = 1
            /\ Count(i, "Commit") = 0
            /\ OnOwnTx(i)
            /\ invs[i].ret.kind = "err"
            /\ Wraps(invs[i].ret.err, invs[i].fn.err)

C2_Witness ==
    \E i \in Invocations :
        /\ Began(i) /\ invs[i].fn.kind = "err"
        /\ result.kind = "err"
        /\ Wraps(result.err, BaseError("second insert failed"))

\* C3: when the unit of work of a begun transaction panics, the caller of
\* the executor sees the panic only after Rollback was called on the
\* transaction, with no Commit, as a panic (no error return) and with the
\* value the unit of work raised.
C3_RollbackThenRepanic ==
    \A i \in Invocations :
        (Began(i) /\ invs[i].fn.kind = "panic") =>
            /\ Count(i, "Commit") = 0
            /\ OnOwnTx(i)
            /\ IF Over(i)
               THEN Count(i, "Rollback") = 1 /\ invs[i].ret = invs[i].fn
               ELSE Count(i, "Rollback") = 0 /\ panicking = <<invs[i].fn.val>> /\ result.kind = "none"

C3_Witness ==
    \E i \in Invocations :
        /\ Began(i) /\ invs[i].fn.kind = "panic" /\ Over(i)
        /\ result = PanicResult("bang")

NestedOnTx(i) ==
    invs[i].entry = "WithNestedTransactionContext" /\ invs[i].db.kind = "tx"

\* The physical transactions open in the call chain: the one the caller
\* handed in and those the executor began, less those on which Commit or
\* Rollback was called (either call consumes the handle, whatever it reports).
PhysicalTx ==
    ({calls[k].tx : k \in {n \in 1..Len(calls) : calls[n].op = "Begin" /\ calls[n].out = "ok"}}
     \cup {invs[i].db.tx : i \in {n \in Invocations : invs[n].parent = 0 /\ invs[n].db.kind = "tx"}})
    \ {calls[k].tx : k \in {n \in 1..Len(calls) : calls[n].op \in {"Commit", "Rollback"}}}

\* C5: a nested call on a handle with an open transaction issues SavePoint
\* once, with the generated name and on that handle, and then only
\* RollbackTo of that savepoint, exactly when its unit of work failed;
\* the unit of work runs on the same handle; it issues no Begin, Commit or
\* Rollback; and the call chain never has more than one physical transaction.
C5_NestedUsesSavepoint ==
    /\ \A i \in Invocations :
        NestedOnTx(i) =>
            /\ \A k \in CallsOf(i) :
                /\ calls[k].op \in {"SavePoint", "RollbackTo"}
                /\ calls[k].tx = invs[i].db.tx
                /\ calls[k].name = SavepointName(invs[i].ctx)
            /\ Count(i, "SavePoint") = 1
            /\ \A k \in OpCalls(i, "RollbackTo") : \E n \in OpCalls(i, "SavePoint") : n < k
            /\ invs[i].branch \in {"none", "sp"}
            /\ invs[i].branch = "sp" => invs[i].tx = invs[i].db
            /\ invs[i].fn.kind = "err" => Count(i, "RollbackTo") = 1
            /\ invs[i].fn.kind \in {"none", "nil"} => Count(i, "RollbackTo") = 0
    /\ Cardinality(PhysicalTx) <= 1

C5_Witness ==
    \E i \in Invocations :
        /\ NestedOnTx(i) /\ invs[i].parent # 0 /\ Began(invs[i].parent)
        /\ invs[i].fn.kind = "err"
        /\ Count(i, "RollbackTo") = 1
        /\ Cardinality(PhysicalTx) = 1

\* C6 (as claimed): a nested call on a non-nil handle with no open
\* transaction (the connection OpenGorm returns, or one built by hand) finds
\* the in-transaction test false, begins a transaction as
\* WithTransactionContext does, and issues no SavePoint or RollbackTo.
C6_NestedWithoutTxBegins ==
    \A i \in Invocations :
        (invs[i].entry = "WithNestedTransactionContext" /\ invs[i].db.kind \in {"open", "manual"}) =>
            /\ ~InTransaction(invs[i].db)
            /\ Count(i, "Begin") = 1
            /\ Count(i, "SavePoint") = 0
            /\ Count(i, "RollbackTo") = 0

\* C7 (as claimed): two nested calls that are active together on one
\* transaction, made with the same context, use different savepoint names.
C7_UniqueSavepointNames ==
    \A i, j \in Elems(stack) :
        (/\ i # j
         /\ invs[i].branch = "sp" /\ invs[j].branch = "sp"
         /\ invs[i].tx = invs[j].tx
         /\ invs[i].ctx = invs[j].ctx) =>
            invs[i].savepoint # invs[j].savepoint

Cancellation(e) == "context canceled" \in Elems(e.chain)

\* C8 (as claimed), in the case the claim names: when the context was
\* canceled before the unit of work returned nil, Commit is not called and
\* the entry point returns an error with context cancellation in its chain.
C8_NoCommitAfterCancel ==
    \A i \in Invocations :
        (Began(i) /\ invs[i].cancelAtFn /\ invs[i].fn.kind = "nil") =>
            /\ Count(i, "Commit") = 0
            /\ invs[i].ret.kind = "err"
            /\ Cancellation(invs[i].ret.err)

\* C9 (as claimed): a call that began a transaction, had its context
\* canceled before the unit of work was over and returns a cancellation
\* error has attempted Rollback on the transaction.
C9_RollbackBeforeCancelError ==
    \A i \in Invocations :
        (/\ Began(i) /\ invs[i].cancelAtFn
         /\ invs[i].ret.kind = "err" /\ Cancellation(invs[i].ret.err)) =>
            Count(i, "Rollback") >= 1

\* The message t holds the message sub, piece for piece.
Contains(t, sub) ==
    \E a \in 0..Len(t) : a + Len(sub) <= Len(t) /\ SubSeq(t, a + 1, a + Len(sub)) = sub

\* C10: when the unit of work fails and the Rollback (or, in the savepoint
\* branch, the RollbackTo) that follows fails too, the one error returned
\* carries the message of the unit of work's error and the message of the
\* rollback error.
C10_BothFailuresReported ==
    \A i \in Invocations :
        \A k \in OpCalls(i, "Rollback") \cup OpCalls(i, "RollbackTo") :
            (invs[i].fn.kind = "err" /\ calls[k].out # "ok") =>
                /\ invs[i].ret.kind = "err"
                /\ Contains(invs[i].ret.err.text, invs[i].fn.err.text)
                /\ Contains(invs[i].ret.err.text, StoreError(calls[k].op, calls[k].out).text)

C10_Witness ==
    \E i, j \in Invocations :
        /\ invs[i].fn.kind = "err" /\ invs[j].fn.kind = "err"
        /\ \E k \in OpCalls(i, "Rollback") : calls[k].out = "failed"
        /\ \E k \in OpCalls(j, "RollbackTo") : calls[k].out = "failed"
        /\ result.kind = "err"
        /\ Contains(result.err.text, <<"RollbackTo">>)
        /\ Contains(result.err.text, <<"Rollback">>)

\* C11: an entry point given a nil handle returns the error "database
\* connection is nil", issues no store call and never calls the unit of work.
C11_NilHandleRejected ==
    \A i \in Invocations :
        invs[i].db.kind = "nil" =>
            /\ invs[i].ret = ErrResult(PlainError("database connection is nil"))
            /\ CallsOf(i) = {}
            /\ invs[i].branch = "none"
            /\ invs[i].fn.kind = "none"
            /\ i \notin Elems(stack)

C11_Witness ==
    /\ \E i \in Invocations :
        invs[i].db.kind = "nil" /\ invs[i].entry = "WithNestedTransactionContext"
    /\ result.kind = "err"
    /\ calls = <<>>

\* C12: when Commit fails after the unit of work returned nil, the call
\* returns an error that says the commit failed and wraps what Commit
\* reported, and no Rollback is attempted.
C12_CommitFailureNoRollback ==
    \A i \in Invocations :
        \A k \in OpCalls(i, "Commit") :
            (Began(i) /\ calls[k].out # "ok") =>
                /\ invs[i].fn.kind = "nil"
                /\ invs[i].ret.kind = "err"
                /\ invs[i].ret.err.text[1] = "failed to commit transaction: "
                /\ Wraps(invs[i].ret.err, StoreError("Commit", calls[k].out))
                /\ Count(i, "Rollback") = 0

C12_Witness ==
    \E i \in Invocations :
        /\ Began(i) /\ invs[i].fn.kind = "nil"
        /\ \E k \in OpCalls(i, "Commit") : calls[k].out = "failed"
        /\ result.kind = "err"
        /\ Wraps(result.err, BaseError("Commit"))

\* The operations of the whole call log, in order.
Ops == [k \in 1..Len(calls) |-> calls[k].op]

\* C13: an outer WithTransaction whose unit of work makes one nested call
\* on the handle it received, sees that call's unit of work fail and returns
\* the error it got: the store calls are Begin, SavePoint, RollbackTo of that
\* savepoint, Rollback, in this order and all on the one transaction; the
\* outer unit of work got the inner failure wrapped as "nested transaction
\* failed"; Commit is never called.
C13_OuterAndNested ==
    (/\ Len(invs) = 2
     /\ invs[1].entry = "WithTransactionContext" /\ Began(1) /\ Over(1)
     /\ invs[2].entry = "WithNestedTransactionContext" /\ invs[2].parent = 1
     /\ invs[2].fn.kind = "err"
     /\ invs[1].fn = invs[2].ret) =>
        /\ Ops = <<"Begin", "SavePoint", "RollbackTo", "Rollback">>
        /\ \A k \in 1..Len(calls) : calls[k].tx = invs[1].tx.tx
        /\ calls[3].name = calls[2].name
        /\ invs[2].db = invs[1].tx
        /\ invs[1].got = invs[2].ret
        /\ invs[1].got.kind = "err"
        /\ invs[1].got.err.text[1] = "nested transaction failed: "
        /\ Wraps(invs[1].got.err, invs[2].fn.err)
        /\ result.kind = "err"
        /\ Wraps(result.err, invs[2].fn.err)

C13_Witness ==
    /\ Len(invs) = 2
    /\ invs[1].entry = "WithTransactionContext" /\ Began(1) /\ Over(1)
    /\ invs[2].entry = "WithNestedTransactionContext" /\ invs[2].parent = 1
    /\ invs[2].fn = ErrResult(BaseError("second insert failed"))
    /\ invs[1].fn = invs[2].ret
    /\ Ops = <<"Begin", "SavePoint", "RollbackTo", "Rollback">>

\* C14: when the unit of work of a savepoint scope panics, its caller sees
\* the panic only after RollbackTo of the scope's savepoint was called, with
\* the value raised, and the nested call issues no Rollback and no Commit.
C14_SavepointRollbackThenRepanic ==
    \A i \in Invocations :
        (invs[i].branch = "sp" /\ invs[i].fn.kind = "panic") =>
            /\ Count(i, "Commit") = 0
            /\ Count(i, "Rollback") = 0
            /\ IF Over(i)
               THEN /\ Count(i, "RollbackTo") = 1
                    /\ \A k \in OpCalls(i, "RollbackTo") :
                         calls[k].name = invs[i].savepoint /\ calls[k].tx = invs[i].tx.tx
                    /\ invs[i].ret = invs[i].fn
               ELSE /\ Count(i, "RollbackTo") = 0
                    /\ panicking = <<invs[i].fn.val>>
                    /\ result.kind = "none"

C14_Witness ==
    \E i \in Invocations :
        /\ NestedOnTx(i) /\ invs[i].parent # 0
        /\ invs[i].branch = "sp" /\ invs[i].fn = PanicResult("boom") /\ Over(i)
        /\ result = PanicResult("boom")

\* The call that opened the scope of invocation i.
Opening(i) ==
    OpCalls(i, IF invs[i].branch = "tx" THEN "Begin" ELSE "SavePoint")

\* C19: when Begin (or, in the savepoint branch, SavePoint) fails, the call
\* returns an error wrapping what the store reported, never calls the unit
\* of work and issues no other store call; when the scope opens, the opening
\* call comes first, nothing else is issued by the call while the unit of
\* work runs, and the Commit, Rollback or RollbackTo that closes it comes
\* after everything the unit of work did.
C19_ScopeBeforeWork ==
    \A i \in Invocations :
        /\ \A k \in OpCalls(i, "Begin") \cup OpCalls(i, "SavePoint") :
            calls[k].out # "ok" =>
                /\ invs[i].branch = "none"
                /\ invs[i].fn.kind = "none"
                /\ i \notin Elems(stack)
                /\ CallsOf(i) = {k}
                /\ invs[i].ret.kind = "err"
                /\ Wraps(invs[i].ret.err, StoreError(calls[k].op, calls[k].out))
        /\ invs[i].branch # "none" =>
            /\ Cardinality(Opening(i)) = 1
            /\ \A o \in Opening(i) : calls[o].out = "ok"
            /\ (i \in Elems(stack)) = ~Over(i)
            /\ \A o \in Opening(i), k \in CallsOf(i) \ Opening(i) :
                /\ o < k
                /\ invs[i].fn.kind # "none"
                /\ calls[k].op \in {"Commit", "Rollback", "RollbackTo"}
                /\ \A j \in Invocations : \A m \in CallsOf(j) :
                     invs[j].parent = i => (o < m /\ m < k)

C19_Witness ==
    /\ \E i \in Invocations :
        /\ invs[i].branch = "none"
        /\ \E k \in OpCalls(i, "SavePoint") : calls[k].out = "failed"
        /\ invs[i].parent # 0 /\ Over(invs[i].parent)
        /\ Count(invs[i].parent, "Commit") = 1
    /\ result.kind # "none"

\* C15 (as claimed): once Commit or Rollback was called on a transaction,
\* no later store call goes to that transaction, also when the Commit or
\* Rollback call itself failed or panicked.
C15_NoCallAfterEnd ==
    \A k, n \in 1..Len(calls) :
        (k < n /\ calls[k].op \in {"Commit", "Rollback"} /\ calls[k].tx # 0) =>
            calls[n].tx # calls[k].tx

\* C16 (as claimed): the JSONB accessors resolve dotted keys into nested
\* documents.  When "settings" holds a map with "notifications": true,
\* GetBool("settings.notifications") returns (true, true); when "preferences"
\* holds a map with "timezone", Has("preferences.timezone") is true; and right
\* after Set("preferences.theme", v) the nested "preferences" map holds v
\* under "theme".
C16_DottedKeysResolve ==
    LET settings == Get(heap, data, "settings")
        preferences == Get(heap, data, "preferences")
    IN /\ (/\ settings.ok
           /\ settings.v.t = "map"
           /\ Get(heap, settings.v.ref, "notifications") = [v |-> Bool(TRUE), ok |-> TRUE])
          => GetBool(heap, data, "settings.notifications") = [v |-> TRUE, ok |-> TRUE]
       /\ (/\ preferences.ok
           /\ preferences.v.t = "map"
           /\ Has(heap, preferences.v.ref, "timezone"))
          => Has(heap, data, "preferences.timezone")
       /\ (/\ preferences.ok
           /\ preferences.v.t = "map"
           /\ lastOp = JsonbCall("Set", "data", "preferences.theme", lastOp.v, FALSE))
          => Get(heap, preferences.v.ref, "theme") = [v |-> lastOp.v, ok |-> TRUE]

\* What a caller can observe through the JSONB at address h: its keys, the
\* scalar under each, and the entries of the nested map under each.
View(hp, h) ==
    IF h = 0 THEN EmptyMap
    ELSE [k \in DOMAIN hp[h] |->
            IF hp[h][k].t = "map"
            THEN [t |-> "map", val |-> Nil, m |-> hp[hp[h][k].ref]]
            ELSE [t |-> hp[h][k].t, val |-> hp[h][k], m |-> EmptyMap]]

\* C17 (as claimed): Clone creates a deep copy.  Once cloned = data.Clone()
\* has returned a map, a Set, a Delete or a write into a nested map made
\* through cloned changes nothing observable through data, and one made
\* through data changes nothing observable through cloned.
C17_CloneIsDeepCopy ==
    [][(/\ cloned # <<>>
        /\ cloned' = cloned
        /\ Handle("cloned") # 0
        /\ lastOp'.name \in {"Set", "Delete", "NestedSet"})
       => IF lastOp'.on = "cloned"
          THEN View(heap', data) = View(heap, data)
          ELSE View(heap', Handle("cloned")) = View(heap, Handle("cloned"))]_vars

C20_KeyValueConsistency ==
    /\ ~lastOp.panic
    /\ data # 0 =>
         /\ \A k \in QueryKeys :
              IF k \in TopKeys /\ lastWrite[k].op = "Set"
              THEN Has(heap, data, k) /\ Get(heap, data, k) = [v |-> lastWrite[k].v, ok |-> TRUE]
              ELSE ~Has(heap, data, k) /\ Get(heap, data, k) = [v |-> Nil, ok |-> FALSE]
         /\ Keys(heap, data) = [nil |-> FALSE, keys |-> {k \in TopKeys : lastWrite[k].op = "Set"}]
    /\ data = 0 =>
         /\ heap = <<>>
         /\ \A k \in QueryKeys :
              ~Has(heap, data, k) /\ Get(heap, data, k) = [v |-> Nil, ok |-> FALSE]
         /\ Keys(heap, data) = [nil |-> TRUE, keys |-> {}]

C20_Witness ==
    /\ data # 0
    /\ lastOp = JsonbCall("Delete", "data", "settings", Nil, FALSE)
    /\ lastWrite["preferences.theme"] = Written(Str("light"))
    /\ lastWrite["preferences"].op = "Set"

====
